---- MODULE Spec2Model ----
(***************************************************************************)
(* The decode-and-diagnose pipeline of the PredictiveMaintenance demos.    *)
(*                                                                         *)
(* The repository holds one program per phase.  Each behaviour of this     *)
(* module is a run of ONE of them, fixed in Init by `phase`:               *)
(*   "P8"  Phase 8 - Event Handling & Alerts/main.py                       *)
(*   "P7"  Phase 7 - Predictive Maintenance Logic/main.py                  *)
(*   "P6"  Phase 6 - Data Storage & Replay/main.py                         *)
(*   "P5"  Phase 5 - Linux software architecture/main.py                   *)
(*   "P4"  Phase 4 - Inter-Processor Communication/main.py                 *)
(*   "RD"  Phase 6 - Data Storage & Replay/replay_decode.py                *)
(*                                                                         *)
(* Numbers.  Python floats are modelled as exact rationals <<num, den>>    *)
(* in lowest terms with den > 0 (volts, seconds, volts per second), so     *)
(* 0.8 is <<4, 5>>.  IEEE-754 rounding is abstracted away: every property  *)
(* below is a property of the exact arithmetic the code writes down.       *)
(* An Optional[float] is a sequence: None is << >>, a value v is <<v>>.    *)
(* time.time() is `clock`, in integer milliseconds, and never runs         *)
(* backwards.                                                              *)
(***************************************************************************)
EXTENDS Integers, Sequences, FiniteSets, TLC

VARIABLES
    phase,                  \* which program runs
    clock,                  \* host clock, time.time(), in ms
    mcu_ms,                 \* ts_mcu_ms of the last frame the Bridge delivered
    nframes,                \* frames delivered so far (bounds the run)
    \* ---- Phase 8 globals
    latest_voltages, frames_seen_window, frames_decoded_window,
    ewma_delta_a, drift_history, last_sheet_send,
    \* ---- Phase 7 globals
    V_A, V_B, V_D, frames_seen, frames_decoded, window, ewma_deltaA, ewma_deltaB,
    \* ---- Phase 6 globals
    latest_volts, LAST_ALERT_TS, frames_seen6, decoded_frames,
    \* ---- Phase 5 globals
    last_values, recv_count,
    written,                \* every (key, (timestamp, value)) pair a handler stored
    \* ---- Phase 4 globals (its counter is recv_count, as in Phase 5)
    last_frame,
    \* ---- the handler and the periodic loop as two threads
    pc_h,                   \* where the running handler invocation stands
    h_frame,                \* the arguments of the running handler invocation
    h_tmp,                  \* the counter value `+= 1` has loaded
    pc_l,                   \* where the loop stands inside its report
    l_seen, l_dec, l_vals,  \* what the report being printed has read so far
    last_stats_time,
    reports,                \* the [STATS] reports printed so far
    \* ---- replay_decode.py, locals of replay()
    total_rows, decoded_rows,
    \* ---- what the last step did and history kept for the properties
    last,                   \* record describing the last handler invocation
    fed,                    \* the metrics (deltaA, deltaB) of every evaluation so far
    attempted               \* key -> clock of the last forward of that key

vars8 == <<latest_voltages, frames_seen_window, frames_decoded_window,
           ewma_delta_a, drift_history, last_sheet_send>>
vars7 == <<V_A, V_B, V_D, frames_seen, frames_decoded, window, ewma_deltaA, ewma_deltaB>>
vars6 == <<latest_volts, LAST_ALERT_TS, frames_seen6, decoded_frames>>
vars5 == <<last_values, recv_count, written>>
vars4 == <<last_frame>>
varsT == <<pc_h, h_frame, h_tmp, pc_l, l_seen, l_dec, l_vals, last_stats_time,
           reports>>
varsRD == <<total_rows, decoded_rows>>
vars  == <<phase, clock, mcu_ms, nframes, vars8, vars7, vars6, vars5, vars4, varsRD,
           varsT, last, fed, attempted>>

(***************************************************************************)
(* Exact rational arithmetic standing for Python's float operators.        *)
(***************************************************************************)
Abs(n) == IF n < 0 THEN -n ELSE n

RECURSIVE GCD(_, _)
GCD(a, b) == IF b = 0 THEN a ELSE GCD(b, a % b)

\* <<n, d>> (d # 0) in lowest terms with a positive denominator.
R(n, d) ==
    LET s == IF d < 0 THEN -1 ELSE 1
        g == GCD(Abs(n), Abs(d))
    IN  <<(s * n) \div g, (s * d) \div g>>

RAdd(x, y) == R(x[1] * y[2] + y[1] * x[2], x[2] * y[2])
RSub(x, y) == R(x[1] * y[2] - y[1] * x[2], x[2] * y[2])
RMul(x, y) == R(x[1] * y[1], x[2] * y[2])
RDiv(x, y) == R(x[1] * y[2], x[2] * y[1])
RAbs(x)    == <<Abs(x[1]), x[2]>>
RLt(x, y)  == x[1] * y[2] < y[1] * x[2]
RLe(x, y)  == x[1] * y[2] <= y[1] * x[2]
RGt(x, y)  == RLt(y, x)
RGe(x, y)  == RLe(y, x)

None    == << >>
Some(v) == <<v>>
Val(o)  == o[1]

(***************************************************************************)
(* The catalog (harness_demo.dbc), as replay_decode.py spells it out.      *)
(***************************************************************************)
ID_ECU_A == 273     \* 0x111
ID_ECU_B == 274     \* 0x112
ID_DCDC  == 275     \* 0x113
MESSAGES == {ID_ECU_A, ID_ECU_B, ID_DCDC}

\* decode_voltage_from_bytes: raw = (b1 << 8) | b0 ; raw * 0.1
\* x | y on non-negative integers, bit by bit
RECURSIVE BitOr(_, _)
BitOr(x, y) ==
    IF x = 0 THEN y
    ELSE IF y = 0 THEN x
    ELSE (IF x % 2 = 1 \/ y % 2 = 1 THEN 1 ELSE 0) + 2 * BitOr(x \div 2, y \div 2)

\* the 16-bit signal read with its bytes in the wrong order
decode_voltage_from_bytes_BigEndian(b0, b1) ==
    RMul(R(BitOr(b0 * 256, b1), 1), R(1, 10))

\* raw = (b1 << 8) | b0; return raw * 0.1
decode_voltage_from_bytes(b0, b1) == RMul(R(BitOr(b1 * 256, b0), 1), R(1, 10))

(***************************************************************************)
(* Events.  A RuleEvent keeps the fields rules and throttling read; the    *)
(* formatted message is left out.                                          *)
(***************************************************************************)
RuleEvent(level, harness, rule_name, a, b, d) ==
    [level |-> level, harness |-> harness, rule_name |-> rule_name,
     ecu_a_v |-> a, ecu_b_v |-> b, dcdc_v |-> d]

\* `IF c THEN <<e>> ELSE << >>`: what one `if c: events.append(e)` adds.
When(c, e) == IF c THEN <<e>> ELSE << >>

(***************************************************************************)
(* Phase 8 - Event Handling & Alerts/main.py                               *)
(***************************************************************************)
STATS_INTERVAL_SEC     == 1
SHEET_MIN_INTERVAL_SEC == 10
DELTA_ALERT_V          == R(8, 10)
DCDC_OK_MIN_V          == R(135, 10)
DCDC_OK_MAX_V          == R(147, 10)
EWMA_ALPHA             == R(2, 10)
DRIFT_WINDOW_SEC       == 20
EARLY_DRIFT_DV_MIN     == R(3, 10)
EARLY_DRIFT_TREND_MIN  == R(1, 100)
URLOPEN_TIMEOUT_SEC    == 5

\* What urlopen can do: 200, another status, HTTPError, or any other
\* exception (network error, timeout).  Only a timeout is given a duration.
Outcomes == {"ok200", "non200", "HTTPError", "timeout"}
Delay(outcome) == IF outcome = "timeout" THEN URLOPEN_TIMEOUT_SEC * 1000 ELSE 0

\* ewma = alpha * new + (1.0 - alpha) * old, or new when old is None
\* ---- variants of the statistics with one plausible slip each
\* an EWMA started from 0 instead of from the first sample
EwmaStep_FromZero(alpha, new, old) ==
    LET prev == IF old = None THEN R(0, 1) ELSE Val(old)
    IN  Some(RAdd(RMul(alpha, new), RMul(RSub(R(1, 1), alpha), prev)))

\* eviction that stops at the first sample that is recent enough
RECURSIVE DropOld8_PopLeft(_, _)
DropOld8_PopLeft(history, cutoff) ==
    IF history # << >> /\ RLt(history[1][1], cutoff)
    THEN DropOld8_PopLeft(Tail(history), cutoff) ELSE history

\* a trend that reads 0 where it is undefined
Trend8_ZeroWhenUndefined(history) ==
    IF Len(history) >= 2
    THEN LET dt == RSub(history[Len(history)][1], history[1][1])
         IN  IF RGt(dt, R(0, 1))
             THEN Some(RDiv(RSub(history[Len(history)][2], history[1][2]), dt))
             ELSE Some(R(0, 1))
    ELSE Some(R(0, 1))

\* the slope of the last two samples instead of the window's two ends
Trend7_Adjacent(w, i) ==
    IF Len(w) < 2 THEN None
    ELSE LET dt == RSub(w[Len(w)][1], w[1][1])
             da == RSub(w[Len(w)][1], w[Len(w) - 1][1])
         IN  IF RLe(dt, R(0, 1)) \/ RLe(da, R(0, 1)) THEN None
             ELSE Some(RDiv(RSub(w[Len(w)][i], w[Len(w) - 1][i]), da))

\* a window that never evicts
DropOld8_KeepAll(history, cutoff) == history

\* a smoothing step whose weights do not sum to 1
EwmaStep_Overshoot(alpha, new, old) ==
    IF old = None THEN Some(new)
    ELSE Some(RAdd(new, RMul(RSub(R(1, 1), alpha), Val(old))))

\* ewma = new on the first sample, else alpha * new + (1 - alpha) * ewma
EwmaStep(alpha, new, old) ==
    IF old = None THEN Some(new)
    ELSE Some(RAdd(RMul(alpha, new), RMul(RSub(R(1, 1), alpha), Val(old))))

\* [(t, d) for (t, d) in drift_history if t >= cutoff]
DropOld8(history, cutoff) == SelectSeq(history, LAMBDA s : RGe(s[1], cutoff))

\* the endpoint slope of update_drift, None unless len >= 2 and dt > 0
Trend8(history) ==
    IF Len(history) >= 2
    THEN LET t0 == history[1][1]
             d0 == history[1][2]
             t1 == history[Len(history)][1]
             d1 == history[Len(history)][2]
             dt == RSub(t1, t0)
         IN  IF RGt(dt, R(0, 1)) THEN Some(RDiv(RSub(d1, d0), dt)) ELSE None
    ELSE None

update_drift(ts_mcu_ms, ecu_a_v, dcdc_v) ==
    LET t_sec   == R(ts_mcu_ms, 1000)
        delta_a == RSub(dcdc_v, ecu_a_v)
        ewma    == EwmaStep(EWMA_ALPHA, delta_a, ewma_delta_a)
        cutoff  == RSub(t_sec, R(DRIFT_WINDOW_SEC, 1))
        hist    == DropOld8(Append(drift_history, <<t_sec, delta_a>>), cutoff)
    IN  [ewma |-> ewma, history |-> hist, trend |-> Trend8(hist), delta_a |-> delta_a]

\* ---- variants of ThresholdRules8 with one plausible slip each
\* the HARNESS_A rule without its `dB <= DELTA_ALERT_V` guard
ThresholdRules8_NoGuard(a, b, d) ==
    LET dA == RSub(d, a)
        dB == RSub(d, b)
    IN  IF RLe(DCDC_OK_MIN_V, d) /\ RLe(d, DCDC_OK_MAX_V)
        THEN When(RGt(dA, DELTA_ALERT_V),
                  RuleEvent("ALERT", "HARNESS_A", "HARNESS_A_LOW_VS_DCDC", a, b, d))
             \o When(RGt(dB, DELTA_ALERT_V) /\ RLe(dA, DELTA_ALERT_V),
                  RuleEvent("ALERT", "HARNESS_B", "HARNESS_B_LOW_VS_DCDC", a, b, d))
             \o When(RGt(dA, DELTA_ALERT_V) /\ RGt(dB, DELTA_ALERT_V),
                  RuleEvent("ALERT", "HARNESS_C", "HARNESS_C_BOTH_LOW_VS_DCDC", a, b, d))
        ELSE << >>

\* the HARNESS_A and HARNESS_B conditions exchanged
ThresholdRules8_Swapped(a, b, d) ==
    LET dA == RSub(d, a)
        dB == RSub(d, b)
    IN  IF RLe(DCDC_OK_MIN_V, d) /\ RLe(d, DCDC_OK_MAX_V)
        THEN When(RGt(dB, DELTA_ALERT_V) /\ RLe(dA, DELTA_ALERT_V),
                  RuleEvent("ALERT", "HARNESS_A", "HARNESS_A_LOW_VS_DCDC", a, b, d))
             \o When(RGt(dA, DELTA_ALERT_V) /\ RLe(dB, DELTA_ALERT_V),
                  RuleEvent("ALERT", "HARNESS_B", "HARNESS_B_LOW_VS_DCDC", a, b, d))
             \o When(RGt(dA, DELTA_ALERT_V) /\ RGt(dB, DELTA_ALERT_V),
                  RuleEvent("ALERT", "HARNESS_C", "HARNESS_C_BOTH_LOW_VS_DCDC", a, b, d))
        ELSE << >>

\* the rules without the DCDC range check around them
ThresholdRules8_NoBand(a, b, d) ==
    LET dA == RSub(d, a)
        dB == RSub(d, b)
    IN  When(RGt(dA, DELTA_ALERT_V) /\ RLe(dB, DELTA_ALERT_V),
             RuleEvent("ALERT", "HARNESS_A", "HARNESS_A_LOW_VS_DCDC", a, b, d))
        \o When(RGt(dB, DELTA_ALERT_V) /\ RLe(dA, DELTA_ALERT_V),
             RuleEvent("ALERT", "HARNESS_B", "HARNESS_B_LOW_VS_DCDC", a, b, d))
        \o When(RGt(dA, DELTA_ALERT_V) /\ RGt(dB, DELTA_ALERT_V),
             RuleEvent("ALERT", "HARNESS_C", "HARNESS_C_BOTH_LOW_VS_DCDC", a, b, d))

\* 1) absolute delta rules vs DCDC: three independent `if`s
ThresholdRules8(a, b, d) ==
    LET dA == RSub(d, a)
        dB == RSub(d, b)
    IN  IF RLe(DCDC_OK_MIN_V, d) /\ RLe(d, DCDC_OK_MAX_V)
        THEN When(RGt(dA, DELTA_ALERT_V) /\ RLe(dB, DELTA_ALERT_V),
                  RuleEvent("ALERT", "HARNESS_A", "HARNESS_A_LOW_VS_DCDC", a, b, d))
             \o When(RGt(dB, DELTA_ALERT_V) /\ RLe(dA, DELTA_ALERT_V),
                  RuleEvent("ALERT", "HARNESS_B", "HARNESS_B_LOW_VS_DCDC", a, b, d))
             \o When(RGt(dA, DELTA_ALERT_V) /\ RGt(dB, DELTA_ALERT_V),
                  RuleEvent("ALERT", "HARNESS_C", "HARNESS_C_BOTH_LOW_VS_DCDC", a, b, d))
        ELSE << >>

\* 2) early drift rule for HARNESS_A on the EWMA and trend update_drift returns
DriftRule8(ewma, trend, a, b, d) ==
    When(ewma # None /\ trend # None
            /\ RGe(Val(ewma), EARLY_DRIFT_DV_MIN)
            /\ RGe(Val(trend), EARLY_DRIFT_TREND_MIN),
         RuleEvent("EARLY", "HARNESS_A", "HARNESS_A_DRIFT", a, b, d))

\* ---- a variant of evaluate_rules without the warm-up return: a value not
\* yet observed reads as 0.0 V
evaluate_rules_NoWarmup(ts_mcu_ms, lv) ==
    LET a == IF lv["ECU_A"] = None THEN R(0, 1) ELSE Val(lv["ECU_A"])
        b == IF lv["ECU_B"] = None THEN R(0, 1) ELSE Val(lv["ECU_B"])
        d == IF lv["DCDC"] = None THEN R(0, 1) ELSE Val(lv["DCDC"])
        u == update_drift(ts_mcu_ms, a, d)
    IN  [evaluated |-> TRUE,
         events |-> ThresholdRules8(a, b, d) \o DriftRule8(u.ewma, u.trend, a, b, d),
         ewma |-> u.ewma, history |-> u.history, trend |-> u.trend,
         delta |-> Some(u.delta_a), delta_b |-> Some(RSub(d, b))]

\* evaluate_rules on the live values lv: the events, and the drift state it
\* leaves behind (update_drift runs inside it).
evaluate_rules(ts_mcu_ms, lv) ==
    LET a == lv["ECU_A"]
        b == lv["ECU_B"]
        d == lv["DCDC"]
    IN  IF a = None \/ b = None \/ d = None
        THEN [evaluated |-> FALSE, events |-> << >>, ewma |-> ewma_delta_a,
              history |-> drift_history, trend |-> None, delta |-> None,
              delta_b |-> None]
        ELSE LET u == update_drift(ts_mcu_ms, Val(a), Val(d))
             IN  [evaluated |-> TRUE,
                  events |-> ThresholdRules8(Val(a), Val(b), Val(d))
                             \o DriftRule8(u.ewma, u.trend, Val(a), Val(b), Val(d)),
                  ewma |-> u.ewma, history |-> u.history, trend |-> u.trend,
                  delta |-> Some(u.delta_a), delta_b |-> Some(RSub(Val(d), Val(b)))]

\* dict.get(key, default)
Get(dict, key, default) == IF key \in DOMAIN dict THEN dict[key] ELSE default
\* a store that overwrites every entry, not only key's
Put_AllKeys(dict, key, value) == [k \in DOMAIN dict \cup {key} |-> value]

\* dict[key] = value
Put(dict, key, value) ==
    [k \in DOMAIN dict \cup {key} |-> IF k = key THEN value ELSE dict[k]]

ThrottleKey(event) == <<event.level, event.harness, event.rule_name>>

\* Whether a delivery outcome records the send: only `status == 200` does.
MarksSent(outcome) == outcome = "ok200"

\* send_event_to_sheets(event) at host time st.now with the sink answering
\* `outcome`.  st = [lss: last_sheet_send, now, sent: the attempts made so
\* far in this handler, att: the attempt history].
send_event_to_sheets(event, outcome, st) ==
    LET key  == ThrottleKey(event)
        lastv == Get(st.lss, key, 0)
    IN  IF st.now - lastv < SHEET_MIN_INTERVAL_SEC * 1000
        THEN st
        ELSE [lss  |-> IF MarksSent(outcome) THEN Put(st.lss, key, st.now) ELSE st.lss,
              now  |-> st.now + Delay(outcome),
              sent |-> Append(st.sent, [key |-> key, now |-> st.now, outcome |-> outcome,
                                        lastv |-> lastv,
                                        prev |-> Get(st.att, key, None)]),
              att  |-> Put(st.att, key, Some(st.now))]

\* for ev in events: ... send_event_to_sheets(ev)
RECURSIVE SendAll(_, _, _)
SendAll(events, outs, st) ==
    IF events = << >> THEN st
    ELSE SendAll(Tail(events), Tail(outs),
                 send_event_to_sheets(Head(events), Head(outs), st))

\* ---- a variant that files ECU_A's value under ECU_B and the reverse
Tracked8_Swapped(can_id) ==
    IF can_id = ID_ECU_A THEN "ECU_B" ELSE IF can_id = ID_ECU_B THEN "ECU_A" ELSE "DCDC"

\* the key of latest_voltages the message of can_id updates
Tracked8(can_id) ==
    IF can_id = ID_ECU_A THEN "ECU_A" ELSE IF can_id = ID_ECU_B THEN "ECU_B" ELSE "DCDC"

\* The record `last` of a step in which no rule was evaluated.
Quiet(kind) ==
    [kind |-> kind, known |-> FALSE, decoded |-> FALSE, evaluated |-> FALSE,
     events |-> << >>, printed |-> << >>, sent |-> << >>,
     trendA |-> None, trendB |-> None, deltaA |-> None, deltaB |-> None,
     ts |-> 0, now |-> 0,
     can_id |-> 0, dlc |-> 0, b0 |-> 0, b1 |-> 0, failed |-> FALSE, value |-> None]

\* The record `last` of a handler invocation, as far as its arguments go.
Heard(ts_mcu_ms, can_id, dlc, b0, b1, raises, now) ==
    [Quiet("frame") EXCEPT !.known = can_id \in MESSAGES, !.ts = ts_mcu_ms,
                           !.now = now, !.can_id = can_id, !.dlc = dlc,
                           !.b0 = b0, !.b1 = b1,
                           !.failed = can_id \in MESSAGES /\ raises]

\* ---- variants of the early returns with one plausible slip each
\* no lookup miss: an identifier outside the catalog is decoded all the same
Ignores_DecodeErrorOnly(can_id, raises) == raises

\* no try/except: a payload whose decoding raised is used all the same
Ignores_UnknownOnly(can_id, raises) == can_id \notin MESSAGES

\* The two early returns of can_frame_v0: the identifier is not in the
\* catalog, or msg.decode raised.
Ignores(can_id, raises) == can_id \notin MESSAGES \/ raises

\* can_frame_v0 of Phase 8.  `raises`: msg.decode raised; sink: the answers
\* the webhook may give to each event of this frame.
can_frame_v0_8_rest(ts_mcu_ms, can_id, dlc, b0, b1, raises, sink) ==
    /\ phase = "P8"
    /\ nframes' = nframes + 1
    /\ mcu_ms' = ts_mcu_ms
    /\ UNCHANGED <<phase, vars4, vars7, vars6, vars5, varsRD>>
    /\ IF Ignores(can_id, raises)
       THEN /\ last' = Heard(ts_mcu_ms, can_id, dlc, b0, b1, raises, clock)
            /\ UNCHANGED <<clock, latest_voltages, ewma_delta_a,
                           drift_history, last_sheet_send, fed, attempted>>
       ELSE LET lv == [latest_voltages EXCEPT
                           ![Tracked8(can_id)] = Some(decode_voltage_from_bytes(b0, b1))]
                r  == evaluate_rules(ts_mcu_ms, lv)
            IN  \E outs \in [1..Len(r.events) -> sink] :
                LET s == SendAll(r.events, outs,
                                 [lss |-> last_sheet_send, now |-> clock,
                                  sent |-> << >>, att |-> attempted])
                IN
                /\ latest_voltages' = lv
                /\ ewma_delta_a' = r.ewma
                /\ drift_history' = r.history
                /\ last_sheet_send' = s.lss
                /\ clock' = s.now
                /\ attempted' = s.att
                /\ fed' = IF r.evaluated
                          THEN Append(fed, <<Val(r.delta), Val(r.delta_b)>>)
                          ELSE fed
                /\ last' = [Heard(ts_mcu_ms, can_id, dlc, b0, b1, raises, clock) EXCEPT
                               !.known = TRUE, !.decoded = TRUE,
                               !.value = Some(decode_voltage_from_bytes(b0, b1)),
                               !.evaluated = r.evaluated, !.events = r.events,
                               !.printed = r.events, !.sent = s.sent,
                               !.trendA = r.trend, !.deltaA = r.delta,
                               !.ts = ts_mcu_ms, !.now = clock]

\* can_frame_v0 of Phase 8 run to completion: frames_seen_window += 1 on
\* entry, frames_decoded_window += 1 once msg.decode has returned
can_frame_v0_8(ts_mcu_ms, can_id, dlc, b0, b1, raises, sink) ==
    /\ frames_seen_window' = frames_seen_window + 1
    /\ frames_decoded_window' = IF Ignores(can_id, raises) THEN frames_decoded_window
                                ELSE frames_decoded_window + 1
    /\ can_frame_v0_8_rest(ts_mcu_ms, can_id, dlc, b0, b1, raises, sink)
    /\ UNCHANGED varsT

(***************************************************************************)
(* Phase 7 - Predictive Maintenance Logic/main.py                          *)
(***************************************************************************)
WINDOW_SECONDS  == 60
STATS_PERIOD    == 1
EWMA_ALPHA7     == R(1, 10)
DCDC_NOMINAL_V  == R(14, 1)
DCDC_TOLERANCE  == R(5, 10)
DELTA_ALERT_V7  == R(1, 1)
DRIFT_MIN_V     == R(3, 10)
TREND_MIN_VPS   == R(2, 1000)

\* while window and window[0][0] < cutoff: window.popleft()
RECURSIVE DropOld7(_, _)
DropOld7(w, cutoff) ==
    IF w # << >> /\ RLt(w[1][1], cutoff) THEN DropOld7(Tail(w), cutoff) ELSE w

\* run_rule_based_harness_checks: an if / elif / elif chain of prints
run_rule_based_harness_checks(deltaA, deltaB, vA, vB, vD) ==
    LET dcdc_ok == RLe(RAbs(RSub(vD, DCDC_NOMINAL_V)), DCDC_TOLERANCE)
        low_A   == RGe(deltaA, DELTA_ALERT_V7)
        low_B   == RGe(deltaB, DELTA_ALERT_V7)
    IN  IF ~dcdc_ok THEN << >>
        ELSE IF low_A /\ ~low_B
             THEN <<RuleEvent("ALERT", "HARNESS_A", "HARNESS_A", vA, vB, vD)>>
        ELSE IF low_B /\ ~low_A
             THEN <<RuleEvent("ALERT", "HARNESS_B", "HARNESS_B", vA, vB, vD)>>
        ELSE IF low_A /\ low_B
             THEN <<RuleEvent("ALERT", "HARNESS_C", "HARNESS_C", vA, vB, vD)>>
        ELSE << >>

\* The two endpoint slopes of run_statistical_checks; None where it returns
\* before computing them (len(window) < 2, or dt <= 0).
Trend7(w, i) ==
    IF Len(w) < 2 THEN None
    ELSE LET dt == RSub(w[Len(w)][1], w[1][1])
         IN  IF RLe(dt, R(0, 1)) THEN None
             ELSE Some(RDiv(RSub(w[Len(w)][i], w[1][i]), dt))

\* ---- a variant of run_statistical_checks whose single-metric rules do not
\* look at the other metric's trend
run_statistical_checks_NoComplement(w, ewmaA, ewmaB, vA, vB, vD) ==
    LET tA == Trend7(w, 2)
        tB == Trend7(w, 3)
    IN  IF tA = None THEN << >>
        ELSE LET trendA == Val(tA)
                 trendB == Val(tB)
                 dcdc_stable ==
                     RLe(RAbs(RSub(w[Len(w)][4], DCDC_NOMINAL_V)), DCDC_TOLERANCE)
             IN  When(ewmaA # None /\ dcdc_stable
                        /\ RGt(Val(ewmaA), DRIFT_MIN_V) /\ RGt(trendA, TREND_MIN_VPS),
                      RuleEvent("EARLY", "HARNESS_A_DRIFT", "HARNESS_A_DRIFT", vA, vB, vD))
                 \o When(ewmaB # None /\ dcdc_stable
                        /\ RGt(Val(ewmaB), DRIFT_MIN_V) /\ RGt(trendB, TREND_MIN_VPS),
                      RuleEvent("EARLY", "HARNESS_B_DRIFT", "HARNESS_B_DRIFT", vA, vB, vD))
                 \o When(ewmaA # None /\ ewmaB # None /\ dcdc_stable
                        /\ RGt(Val(ewmaA), DRIFT_MIN_V) /\ RGt(Val(ewmaB), DRIFT_MIN_V)
                        /\ RGt(trendA, TREND_MIN_VPS) /\ RGt(trendB, TREND_MIN_VPS),
                      RuleEvent("EARLY", "HARNESS_C_DRIFT", "HARNESS_C_DRIFT", vA, vB, vD))

\* run_statistical_checks: three independent `if`s of prints
run_statistical_checks(w, ewmaA, ewmaB, vA, vB, vD) ==
    LET tA == Trend7(w, 2)
        tB == Trend7(w, 3)
    IN  IF tA = None THEN << >>
        ELSE LET trendA == Val(tA)
                 trendB == Val(tB)
                 half   == RMul(TREND_MIN_VPS, R(5, 10))
                 dcdc_stable ==
                     RLe(RAbs(RSub(w[Len(w)][4], DCDC_NOMINAL_V)), DCDC_TOLERANCE)
             IN  When(ewmaA # None /\ dcdc_stable
                        /\ RGt(Val(ewmaA), DRIFT_MIN_V) /\ RGt(trendA, TREND_MIN_VPS)
                        /\ RLt(RAbs(trendB), half),
                      RuleEvent("EARLY", "HARNESS_A_DRIFT", "HARNESS_A_DRIFT", vA, vB, vD))
                 \o When(ewmaB # None /\ dcdc_stable
                        /\ RGt(Val(ewmaB), DRIFT_MIN_V) /\ RGt(trendB, TREND_MIN_VPS)
                        /\ RLt(RAbs(trendA), half),
                      RuleEvent("EARLY", "HARNESS_B_DRIFT", "HARNESS_B_DRIFT", vA, vB, vD))
                 \o When(ewmaA # None /\ ewmaB # None /\ dcdc_stable
                        /\ RGt(Val(ewmaA), DRIFT_MIN_V) /\ RGt(Val(ewmaB), DRIFT_MIN_V)
                        /\ RGt(trendA, TREND_MIN_VPS) /\ RGt(trendB, TREND_MIN_VPS),
                      RuleEvent("EARLY", "HARNESS_C_DRIFT", "HARNESS_C_DRIFT", vA, vB, vD))

\* update_stats_and_rules with the three voltages vA, vB, vD at host time now
update_stats_and_rules(vA, vB, vD, now) ==
    LET t      == R(now, 1000)
        deltaA == RSub(vD, vA)
        deltaB == RSub(vD, vB)
        cutoff == RSub(t, R(WINDOW_SECONDS, 1))
        w      == DropOld7(Append(window, <<t, deltaA, deltaB, vD>>), cutoff)
        eA     == EwmaStep(EWMA_ALPHA7, deltaA, ewma_deltaA)
        eB     == IF ewma_deltaA = None THEN Some(deltaB)
                  ELSE EwmaStep(EWMA_ALPHA7, deltaB, ewma_deltaB)
    IN  [window |-> w, ewmaA |-> eA, ewmaB |-> eB, deltaA |-> deltaA, deltaB |-> deltaB,
         trendA |-> Trend7(w, 2), trendB |-> Trend7(w, 3),
         events |-> run_rule_based_harness_checks(deltaA, deltaB, vA, vB, vD)
                    \o run_statistical_checks(w, eA, eB, vA, vB, vD)]

\* can_frame_v0 of Phase 7
can_frame_v0_7_rest(ts_mcu_ms, can_id, dlc, b0, b1, raises) ==
    /\ phase = "P7"
    /\ nframes' = nframes + 1
    /\ mcu_ms' = ts_mcu_ms
    /\ UNCHANGED <<phase, vars4, clock, vars8, vars6, vars5, varsRD, attempted>>
    /\ IF Ignores(can_id, raises)
       THEN /\ last' = Heard(ts_mcu_ms, can_id, dlc, b0, b1, raises, clock)
            /\ UNCHANGED <<V_A, V_B, V_D, window, ewma_deltaA,
                           ewma_deltaB, fed>>
       ELSE LET v  == Some(decode_voltage_from_bytes(b0, b1))
                vA == IF can_id = ID_ECU_A THEN v ELSE V_A
                vB == IF can_id = ID_ECU_B THEN v ELSE V_B
                vD == IF can_id = ID_DCDC THEN v ELSE V_D
            IN  /\ V_A' = vA
                /\ V_B' = vB
                /\ V_D' = vD
                /\ IF vA # None /\ vB # None /\ vD # None
                   THEN LET u == update_stats_and_rules(Val(vA), Val(vB), Val(vD), clock)
                        IN  /\ window' = u.window
                            /\ ewma_deltaA' = u.ewmaA
                            /\ ewma_deltaB' = u.ewmaB
                            /\ fed' = Append(fed, <<u.deltaA, u.deltaB>>)
                            /\ last' = [Heard(ts_mcu_ms, can_id, dlc, b0, b1, raises, clock) EXCEPT
                                   !.known = TRUE, !.decoded = TRUE, !.evaluated = TRUE,
                                   !.value = Some(decode_voltage_from_bytes(b0, b1)),
                                   !.events = u.events, !.printed = u.events,
                                   !.trendA = u.trendA, !.trendB = u.trendB,
                                   !.deltaA = Some(u.deltaA), !.deltaB = Some(u.deltaB),
                                   !.ts = ts_mcu_ms, !.now = clock]
                   ELSE /\ UNCHANGED <<window, ewma_deltaA, ewma_deltaB, fed>>
                        /\ last' = [Heard(ts_mcu_ms, can_id, dlc, b0, b1, raises, clock) EXCEPT
                                   !.known = TRUE, !.decoded = TRUE,
                               !.value = Some(decode_voltage_from_bytes(b0, b1)),
                                   !.ts = ts_mcu_ms, !.now = clock]

\* can_frame_v0 of Phase 7 run to completion
can_frame_v0_7(ts_mcu_ms, can_id, dlc, b0, b1, raises) ==
    /\ frames_seen' = frames_seen + 1
    /\ frames_decoded' = IF Ignores(can_id, raises) THEN frames_decoded
                         ELSE frames_decoded + 1
    /\ can_frame_v0_7_rest(ts_mcu_ms, can_id, dlc, b0, b1, raises)
    /\ UNCHANGED varsT

(***************************************************************************)
(* Phase 6 - Data Storage & Replay/main.py                                 *)
(***************************************************************************)
NOMINAL_VOLT     == R(14, 1)
GOOD_DELTA_V     == R(3, 10)
FAULT_DELTA_V    == R(8, 10)
ALERT_COOLDOWN_S == 1

\* The if / elif / elif chain of evaluate_harness_health: the alert code,
\* "" where the function leaves alert_code None.
Classify6(vA, vB, vD) ==
    LET dA     == RSub(vD, vA)
        dB     == RSub(vD, vB)
        dD_nom == RAbs(RSub(vD, NOMINAL_VOLT))
        abs_dA == RAbs(dA)
        abs_dB == RAbs(dB)
    IN  IF RGt(abs_dA, FAULT_DELTA_V) /\ RLe(abs_dB, GOOD_DELTA_V) /\ RLe(dD_nom, GOOD_DELTA_V)
        THEN "HARNESS_A"
        ELSE IF RGt(abs_dB, FAULT_DELTA_V) /\ RLe(abs_dA, GOOD_DELTA_V)
                /\ RLe(dD_nom, GOOD_DELTA_V)
        THEN "HARNESS_B"
        ELSE IF RGt(abs_dA, FAULT_DELTA_V) /\ RGt(abs_dB, FAULT_DELTA_V)
                /\ RLe(dD_nom, GOOD_DELTA_V)
        THEN "HARNESS_C"
        ELSE ""

\* Throttle console spam: the alert is printed iff the cooldown has passed.
Prints6(now, last_alert_ts) == now - last_alert_ts >= ALERT_COOLDOWN_S * 1000

\* a variant that reports a code only when it prints the alert
evaluate_harness_health_SilentWhenSuppressed(lv, now) ==
    LET vA == lv["ECU_A"]
        vB == lv["ECU_B"]
        vD == lv["DCDC"]
    IN  IF vA = None \/ vB = None \/ vD = None
        THEN [evaluated |-> FALSE, alert_code |-> "", printed |-> FALSE,
              ts |-> LAST_ALERT_TS]
        ELSE LET code == Classify6(Val(vA), Val(vB), Val(vD))
                 p    == code # "" /\ Prints6(now, LAST_ALERT_TS)
             IN  [evaluated |-> TRUE, alert_code |-> IF p THEN code ELSE "",
                  printed |-> p, ts |-> IF p THEN now ELSE LAST_ALERT_TS]

\* evaluate_harness_health on live values lv at host time now: the code it
\* returns ("" for None), whether it printed, and LAST_ALERT_TS afterwards.
evaluate_harness_health(lv, now) ==
    LET vA == lv["ECU_A"]
        vB == lv["ECU_B"]
        vD == lv["DCDC"]
    IN  IF vA = None \/ vB = None \/ vD = None
        THEN [evaluated |-> FALSE, alert_code |-> "", printed |-> FALSE,
              ts |-> LAST_ALERT_TS]
        ELSE LET code == Classify6(Val(vA), Val(vB), Val(vD))
                 p    == code # "" /\ Prints6(now, LAST_ALERT_TS)
             IN  [evaluated |-> TRUE, alert_code |-> code, printed |-> p,
                  ts |-> IF p THEN now ELSE LAST_ALERT_TS]

\* can_frame_v0 of Phase 6 (the CSV row it writes carries last.events)
can_frame_v0_6(ts_mcu_ms, can_id, dlc, b0, b1, raises) ==
    /\ phase = "P6"
    /\ frames_seen6' = frames_seen6 + 1
    /\ nframes' = nframes + 1
    /\ mcu_ms' = ts_mcu_ms
    /\ UNCHANGED <<phase, vars4, varsT, clock, vars8, vars7, vars5, varsRD, fed>>
    /\ IF Ignores(can_id, raises)
       THEN /\ last' = Heard(ts_mcu_ms, can_id, dlc, b0, b1, raises, clock)
            /\ UNCHANGED <<latest_volts, LAST_ALERT_TS, decoded_frames, attempted>>
       ELSE LET lv == [latest_volts EXCEPT
                           ![Tracked8(can_id)] = Some(decode_voltage_from_bytes(b0, b1))]
                r  == evaluate_harness_health(lv, clock)
                ev == When(r.alert_code # "",
                           RuleEvent("ALERT", r.alert_code, r.alert_code,
                                     Val(lv["ECU_A"]), Val(lv["ECU_B"]), Val(lv["DCDC"])))
                key == <<"ALERT", r.alert_code, r.alert_code>>
            IN  /\ decoded_frames' = decoded_frames + 1
                /\ latest_volts' = lv
                /\ LAST_ALERT_TS' = r.ts
                /\ attempted' = IF r.printed THEN Put(attempted, key, Some(clock))
                                ELSE attempted
                /\ last' = [Heard(ts_mcu_ms, can_id, dlc, b0, b1, raises, clock) EXCEPT
                               !.known = TRUE, !.decoded = TRUE,
                               !.value = Some(decode_voltage_from_bytes(b0, b1)),
                               !.evaluated = r.evaluated, !.events = ev,
                               !.printed = IF r.printed THEN ev ELSE << >>,
                               !.sent = When(r.printed,
                                             [key |-> key, now |-> clock,
                                              outcome |-> "printed",
                                              lastv |-> LAST_ALERT_TS,
                                              prev |-> Get(attempted, key, None)]),
                               !.ts = ts_mcu_ms, !.now = clock]

(***************************************************************************)
(* Phase 5 - Linux software architecture/main.py                           *)
(***************************************************************************)
\* msg.name of the three demo messages, the keys of last_values
MsgName(can_id) ==
    IF can_id = ID_ECU_A THEN "ECU_A_STATUS"
    ELSE IF can_id = ID_ECU_B THEN "ECU_B_STATUS" ELSE "DCDC_STATUS"

\* a store that writes the timestamp of the pair and leaves the value of the
\* previous pair in place
StoreLastValue_Torn(lv, name, timestamp, v) ==
    [lv EXCEPT ![name] = IF lv[name] = None THEN Some(<<timestamp, v>>)
                         ELSE Some(<<timestamp, Val(lv[name])[2]>>)]

\* last_values[msg.name] = (timestamp, decoded): one tuple, one assignment
StoreLastValue(lv, name, timestamp, v) == [lv EXCEPT ![name] = Some(<<timestamp, v>>)]

\* can_frame_v0 of Phase 5: last_values[msg.name] = (timestamp, decoded);
\* of the decoded dict the model keeps the voltage.
can_frame_v0_5_rest(timestamp, can_id, dlc, b0, b1, raises) ==
    /\ phase = "P5"
    /\ nframes' = nframes + 1
    /\ mcu_ms' = timestamp
    /\ UNCHANGED <<phase, vars4, clock, vars8, vars7, vars6, varsRD, fed, attempted>>
    /\ IF Ignores(can_id, raises)
       THEN /\ last' = Heard(timestamp, can_id, dlc, b0, b1, raises, clock)
            /\ UNCHANGED <<last_values, written>>
       ELSE LET v == decode_voltage_from_bytes(b0, b1)
            IN  /\ last_values' = StoreLastValue(last_values, MsgName(can_id), timestamp, v)
                /\ written' = written \cup {<<MsgName(can_id), <<timestamp, v>>>>}
                /\ last' = [Heard(timestamp, can_id, dlc, b0, b1, raises, clock) EXCEPT
                               !.decoded = TRUE, !.value = Some(v)]

\* can_frame_v0 of Phase 5 run to completion
can_frame_v0_5(timestamp, can_id, dlc, b0, b1, raises) ==
    /\ recv_count' = recv_count + 1
    /\ can_frame_v0_5_rest(timestamp, can_id, dlc, b0, b1, raises)
    /\ UNCHANGED varsT

(***************************************************************************)
(* Phase 4 - Inter-Processor Communication/main.py                         *)
(***************************************************************************)
\* can_frame_v0 of Phase 4 after recv_count += 1:
\* last_frame = (version, timestamp, can_id, dlc, data, ext), of which the
\* model keeps the timestamp, the identifier, dlc and the first two bytes.
can_frame_v0_4_rest(timestamp, can_id, dlc, b0, b1) ==
    /\ phase = "P4"
    /\ nframes' = nframes + 1
    /\ mcu_ms' = timestamp
    /\ last_frame' = Some(<<timestamp, can_id, dlc, b0, b1>>)
    /\ last' = Heard(timestamp, can_id, dlc, b0, b1, FALSE, clock)
    /\ UNCHANGED <<phase, clock, vars8, vars7, vars6, last_values, written, varsRD,
                   fed, attempted>>

(***************************************************************************)
(* Phase 6 - Data Storage & Replay/replay_decode.py                        *)
(***************************************************************************)
\* One iteration of the `for row in reader` loop of replay(): the row's
\* can_id, dlc, b0 and b1 columns as parse_int reads them.
replay_row(ts_mcu_ms, can_id, dlc, b0, b1) ==
    /\ phase = "RD"
    /\ total_rows' = total_rows + 1
    /\ nframes' = nframes + 1
    /\ mcu_ms' = ts_mcu_ms
    /\ UNCHANGED <<phase, vars4, varsT, clock, vars8, vars7, vars6, vars5, fed, attempted>>
    /\ IF can_id \notin MESSAGES
       THEN /\ last' = Heard(ts_mcu_ms, can_id, dlc, b0, b1, FALSE, clock)
            /\ UNCHANGED decoded_rows
       ELSE /\ decoded_rows' = decoded_rows + 1
            /\ last' = [Heard(ts_mcu_ms, can_id, dlc, b0, b1, FALSE, clock) EXCEPT
                           !.decoded = TRUE,
                           !.value = Some(decode_voltage_from_bytes(b0, b1))]

(***************************************************************************)
(* The environment: the Bridge delivering frames, and the host clock.      *)
(***************************************************************************)
Phases  == {"P5", "P6", "P7", "P8", "RD"}
MsgNames == {"ECU_A_STATUS", "ECU_B_STATUS", "DCDC_STATUS"}
Signals == {"ECU_A", "ECU_B", "DCDC"}
EmptyDict == [k \in {} |-> 0]

\* time.time() when the program starts, in ms (any value past the cooldowns)
StartClock == 100000

\* The state after the module-level code of one of the programs `phases`
\* has run, with time.time() = t0.
InitAt(phases, t0) ==
    /\ phase \in phases
    /\ clock = t0
    /\ mcu_ms = 0
    /\ nframes = 0
    /\ latest_voltages = [s \in Signals |-> None]
    /\ frames_seen_window = 0
    /\ frames_decoded_window = 0
    /\ ewma_delta_a = None
    /\ drift_history = << >>
    /\ last_sheet_send = EmptyDict
    /\ V_A = None
    /\ V_B = None
    /\ V_D = None
    /\ frames_seen = 0
    /\ frames_decoded = 0
    /\ window = << >>
    /\ ewma_deltaA = None
    /\ ewma_deltaB = None
    /\ latest_volts = [s \in Signals |-> None]
    /\ LAST_ALERT_TS = 0
    /\ frames_seen6 = 0
    /\ decoded_frames = 0
    /\ last_values = [n \in MsgNames |-> None]
    /\ recv_count = 0
    /\ total_rows = 0
    /\ decoded_rows = 0
    /\ last = Quiet("init")
    /\ fed = << >>
    /\ attempted = EmptyDict
    /\ written = {}
    /\ last_frame = None
    /\ pc_h = "idle"
    /\ h_frame = None
    /\ h_tmp = 0
    /\ pc_l = "idle"
    /\ l_seen = 0
    /\ l_dec = 0
    /\ l_vals = << >>
    /\ last_stats_time = t0
    /\ reports = << >>

Init == InitAt(Phases, StartClock)

\* The host clock advances by dt ms, up to `limit`.
Advance(dt, limit) ==
    /\ clock + dt <= limit
    /\ clock' = clock + dt
    /\ UNCHANGED <<phase, mcu_ms, nframes, vars8, vars7, vars6, vars5, vars4, varsRD,
                   varsT, last, fed, attempted>>

\* The host clock advances by dt ms between two callbacks.
Tick(dt, horizon) == Advance(dt, StartClock + horizon)

\* One call of the registered handler by the Bridge, in the running program.
Frame(ts, can_id, dlc, b0, b1, raises, sink) ==
    \/ can_frame_v0_8(ts, can_id, dlc, b0, b1, raises, sink)
    \/ can_frame_v0_7(ts, can_id, dlc, b0, b1, raises)
    \/ can_frame_v0_6(ts, can_id, dlc, b0, b1, raises)
    \/ can_frame_v0_5(ts, can_id, dlc, b0, b1, raises)
    \/ (~raises /\ replay_row(ts, can_id, dlc, b0, b1))

\* ---- Rule evaluation over a grid of live values (no clock, ideal sink).
MaxFramesRules == 4
\* raw 16-bit values (0.1 V each) each message is sent with
RawsRules(can_id) ==
    IF can_id = ID_ECU_A THEN {90, 130, 139, 140}
    ELSE IF can_id = ID_ECU_B THEN {90, 130, 135, 139, 140}
    ELSE {100, 140}

DeliverRules ==
    /\ nframes < MaxFramesRules
    /\ \E can_id \in MESSAGES : \E raw \in RawsRules(can_id) :
          Frame(0, can_id, 8, raw % 256, raw \div 256, FALSE, {"ok200"})

NextRules == DeliverRules

SpecRules == Init /\ [][NextRules]_vars

\* ---- Throttling: repeated alerts, a moving host clock, any sink answer.
MaxFramesThrottle == 5
RawsThrottle(can_id) ==
    IF can_id = ID_ECU_A THEN {130}
    ELSE IF can_id = ID_ECU_B THEN {130, 140}
    ELSE {140}

DeliverThrottle ==
    /\ nframes < MaxFramesThrottle
    /\ \E can_id \in MESSAGES : \E raw \in RawsThrottle(can_id) :
          Frame(0, can_id, 8, raw % 256, raw \div 256, FALSE, Outcomes)

AdvanceThrottle == Tick(5000, 10000)

NextThrottle == DeliverThrottle \/ AdvanceThrottle

SpecThrottle == Init /\ [][NextThrottle]_vars

\* ---- Statistics: a slowly changing ECU_A, frame timestamps in any order
\* (Phase 8 stamps its samples with them), a host clock that moves in steps
\* of half the Phase 7 window (Phase 7 stamps its samples with it).
MaxFramesStats == 5
TsStats == {0, 15000, 30000}
RawsStats(can_id) == IF can_id = ID_ECU_A THEN {135, 137} ELSE {140}

DeliverStats ==
    /\ nframes < MaxFramesStats
    /\ \E can_id \in MESSAGES : \E raw \in RawsStats(can_id) :
       \E ts \in (IF phase = "P8" THEN TsStats ELSE {0}) :
          Frame(ts, can_id, 8, raw % 256, raw \div 256, FALSE, {"ok200"})

AdvanceStats == Tick(30000, 90000)

NextStats == DeliverStats \/ AdvanceStats

SpecStats == Init /\ [][NextStats]_vars

\* ---- Frame handling: identifiers outside the catalog, payloads whose
\* decoding raises, timestamps in any order.
MaxFramesFrames == 4
UNKNOWN_ID == 512    \* 0x200, an identifier the DBC does not list
TsFrames == {0, 1000}
\* <<can_id, raw, msg.decode raises>>
InputsFrames ==
    {<<ID_ECU_A, 130, FALSE>>, <<ID_ECU_A, 140, FALSE>>, <<ID_ECU_B, 140, FALSE>>,
     <<ID_DCDC, 140, FALSE>>, <<UNKNOWN_ID, 130, FALSE>>, <<ID_ECU_A, 140, TRUE>>}

DeliverFrames ==
    /\ nframes < MaxFramesFrames
    /\ \E f \in InputsFrames : \E ts \in TsFrames :
          Frame(ts, f[1], 8, f[2] % 256, f[2] \div 256, f[3], {"ok200"})

NextFrames == DeliverFrames

SpecFrames == Init /\ [][NextFrames]_vars

\* ---- Drift: both ECUs sagging, the reference in and out of its band; the
\* MCU's millis() runs with the host clock.
MaxFramesDrift == 5
RawsDrift(can_id) == IF can_id = ID_DCDC THEN {140, 150} ELSE {135, 137}

DeliverDrift ==
    /\ nframes < MaxFramesDrift
    /\ \E can_id \in MESSAGES : \E raw \in RawsDrift(can_id) :
          Frame(clock - StartClock, can_id, 8, raw % 256, raw \div 256, FALSE, {"ok200"})

AdvanceDrift == Tick(15000, 30000)

NextDrift == DeliverDrift \/ AdvanceDrift

SpecDrift == Init /\ [][NextDrift]_vars

\* ---- Decoding: payload bytes over their range, short frames with padding.
MaxFramesDecode == 1
BytesDecode == {0, 5, 140, 255}
DlcDecode == {1, 2, 8}

DeliverDecode ==
    /\ nframes < MaxFramesDecode
    /\ \E can_id \in MESSAGES : \E dlc \in DlcDecode : \E b0, b1 \in BytesDecode :
          Frame(0, can_id, dlc, b0, b1, FALSE, {"ok200"})

NextDecode == DeliverDecode

SpecDecode == Init /\ [][NextDecode]_vars

(***************************************************************************)
(* The handler and the periodic loop as two threads.  The Bridge calls     *)
(* can_frame_v0 while App.run keeps calling the loop; neither takes a      *)
(* lock, so their statements interleave.  `x += 1` on a global is a load   *)
(* and a store; a print reads the globals of its f-string one after the    *)
(* other.  last_stats_time is read and written by the loop only, so its    *)
(* assignment `last_stats_time = now` is taken with the test that reads    *)
(* `now`.  The rate the Phase 5 and Phase 4 reports derive from recv_count *)
(* is not kept.                                                            *)
(***************************************************************************)
ThreadPhases == {"P8", "P7", "P5", "P4"}
MaxFramesThreads == 2
\* <<timestamp, can_id, raw>>
InputsThreads == {<<0, ID_ECU_A, 130>>, <<1000, ID_ECU_A, 140>>, <<0, UNKNOWN_ID, 130>>}

\* STATS_INTERVAL_SEC, STATS_PERIOD, and the literal 1.0 of Phases 5 and 4
StatsIntervalMs ==
    1000 * (IF phase = "P8" THEN STATS_INTERVAL_SEC
            ELSE IF phase = "P7" THEN STATS_PERIOD ELSE 1)

\* the per-period counters of the running program
ReadSeen ==
    IF phase = "P8" THEN frames_seen_window
    ELSE IF phase = "P7" THEN frames_seen ELSE recv_count
ReadDecoded == IF phase = "P8" THEN frames_decoded_window ELSE frames_decoded
WriteSeen(v) ==
    /\ frames_seen_window' = IF phase = "P8" THEN v ELSE frames_seen_window
    /\ frames_seen' = IF phase = "P7" THEN v ELSE frames_seen
    /\ recv_count' = IF phase \in {"P5", "P4"} THEN v ELSE recv_count
WriteDecoded(v) ==
    /\ frames_decoded_window' = IF phase = "P8" THEN v ELSE frames_decoded_window
    /\ frames_decoded' = IF phase = "P7" THEN v ELSE frames_decoded
HasDecodedCounter == phase \in {"P8", "P7"}

seen_counters    == <<frames_seen_window, frames_seen, recv_count>>
decoded_counters == <<frames_decoded_window, frames_decoded>>
stores == <<phase, mcu_ms, nframes, latest_voltages, ewma_delta_a, drift_history,
            last_sheet_send, V_A, V_B, V_D, window, ewma_deltaA, ewma_deltaB, vars6,
            last_values, written, last_frame, varsRD, last, fed, attempted>>
handler_locals == <<pc_h, h_frame, h_tmp>>
loop_locals    == <<pc_l, l_seen, l_dec, l_vals, last_stats_time, reports>>

\* ---- can_frame_v0, statement by statement
\* the Bridge calls the handler; `<counter> += 1` loads the counter
HandlerEnter(timestamp, can_id, raw) ==
    /\ pc_h = "idle"
    /\ nframes < MaxFramesThreads
    /\ pc_h' = "seen"
    /\ h_frame' = Some([ts |-> timestamp, can_id |-> can_id, dlc |-> 8,
                        b0 |-> raw % 256, b1 |-> raw \div 256, raises |-> FALSE])
    /\ h_tmp' = ReadSeen
    /\ UNCHANGED <<clock, stores, seen_counters, decoded_counters, loop_locals>>

\* ... and stores it; then the lookup and msg.decode, which touch no global
HandlerCountSeen ==
    /\ pc_h = "seen"
    /\ WriteSeen(h_tmp + 1)
    /\ pc_h' = IF HasDecodedCounter /\ ~Ignores(Val(h_frame).can_id, Val(h_frame).raises)
               THEN "decoded_load" ELSE "rest"
    /\ UNCHANGED <<clock, stores, decoded_counters, h_frame, h_tmp, loop_locals>>

\* `<decoded counter> += 1` loads the counter
HandlerLoadDecoded ==
    /\ pc_h = "decoded_load"
    /\ h_tmp' = ReadDecoded
    /\ pc_h' = "decoded_store"
    /\ UNCHANGED <<clock, stores, seen_counters, decoded_counters, h_frame, loop_locals>>

\* ... and stores it
HandlerCountDecoded ==
    /\ pc_h = "decoded_store"
    /\ WriteDecoded(h_tmp + 1)
    /\ pc_h' = "rest"
    /\ UNCHANGED <<clock, stores, seen_counters, h_frame, h_tmp, loop_locals>>

\* the rest of the handler: store the value, evaluate, print, send; return
HandlerRest ==
    /\ pc_h = "rest"
    /\ pc_h' = "idle"
    /\ h_frame' = None
    /\ LET f == Val(h_frame)
       IN  \/ can_frame_v0_8_rest(f.ts, f.can_id, f.dlc, f.b0, f.b1, f.raises, {"ok200"})
           \/ can_frame_v0_7_rest(f.ts, f.can_id, f.dlc, f.b0, f.b1, f.raises)
           \/ can_frame_v0_5_rest(f.ts, f.can_id, f.dlc, f.b0, f.b1, f.raises)
           \/ can_frame_v0_4_rest(f.ts, f.can_id, f.dlc, f.b0, f.b1)
    /\ UNCHANGED <<seen_counters, decoded_counters, h_tmp, loop_locals>>

\* ---- the loop, statement by statement
\* the order in which a report reads the globals and resets the counters
LoopOrder ==
    IF phase = "P8" THEN <<"seen", "decoded", "values", "reset_seen", "reset_decoded">>
    ELSE IF phase = "P7"
    THEN <<"values", "seen", "decoded", "reset_seen", "reset_decoded">>
    ELSE <<"seen", "values", "reset_seen">>
NextPc(pc) ==
    LET i == CHOOSE j \in 1..Len(LoopOrder) : LoopOrder[j] = pc
    IN  IF i = Len(LoopOrder) THEN "idle" ELSE LoopOrder[i + 1]
\* the keys fmt() is called with, in order
ReportKeys == <<"ECU_A_STATUS", "ECU_B_STATUS", "DCDC_STATUS">>

\* what the loop does once the last global of the report is read: print it
Report(to, seen, decoded, values) ==
    IF to = "reset_seen"
    THEN reports' = Append(reports, [seen |-> seen, decoded |-> decoded,
                                     values |-> values])
    ELSE UNCHANGED reports

\* now = time.time(); if now - last_stats_time >= <interval>:
LoopCheck ==
    /\ pc_l = "idle"
    /\ clock - last_stats_time >= StatsIntervalMs
    /\ last_stats_time' = clock
    /\ pc_l' = LoopOrder[1]
    /\ l_seen' = 0
    /\ l_dec' = 0
    /\ l_vals' = << >>
    /\ UNCHANGED <<clock, stores, seen_counters, decoded_counters, handler_locals,
                   reports>>

\* the f-string reads the frames-seen counter
LoopReadSeen ==
    /\ pc_l = "seen"
    /\ l_seen' = ReadSeen
    /\ pc_l' = NextPc(pc_l)
    /\ Report(NextPc(pc_l), l_seen', l_dec, l_vals)
    /\ UNCHANGED <<clock, stores, seen_counters, decoded_counters, handler_locals,
                   l_dec, l_vals, last_stats_time>>

\* the f-string reads the decoded counter
LoopReadDecoded ==
    /\ pc_l = "decoded"
    /\ l_dec' = ReadDecoded
    /\ pc_l' = NextPc(pc_l)
    /\ Report(NextPc(pc_l), l_seen, l_dec', l_vals)
    /\ UNCHANGED <<clock, stores, seen_counters, decoded_counters, handler_locals,
                   l_seen, l_vals, last_stats_time>>

\* the live values: latest_voltages[...] (Phase 8), V_A, V_B, V_D (Phase 7),
\* one last_values.get(key) per call of fmt (Phase 5), last_frame (Phase 4)
LoopReadValues ==
    /\ pc_l = "values"
    /\ l_vals' = IF phase = "P8"
                 THEN <<latest_voltages["ECU_A"], latest_voltages["ECU_B"],
                        latest_voltages["DCDC"]>>
                 ELSE IF phase = "P7" THEN <<V_A, V_B, V_D>>
                 ELSE IF phase = "P5"
                 THEN Append(l_vals, last_values[ReportKeys[Len(l_vals) + 1]])
                 ELSE <<last_frame>>
    /\ LET to == IF phase = "P5" /\ Len(l_vals') < Len(ReportKeys)
                 THEN "values" ELSE NextPc(pc_l)
       IN  /\ pc_l' = to
           /\ Report(to, l_seen, l_dec, l_vals')
    /\ UNCHANGED <<clock, stores, seen_counters, decoded_counters, handler_locals,
                   l_seen, l_dec, last_stats_time>>

\* <frames-seen counter> = 0
LoopResetSeen ==
    /\ pc_l = "reset_seen"
    /\ WriteSeen(0)
    /\ pc_l' = NextPc(pc_l)
    /\ UNCHANGED <<clock, stores, decoded_counters, handler_locals, l_seen, l_dec, l_vals,
                   last_stats_time, reports>>

\* <decoded counter> = 0
LoopResetDecoded ==
    /\ pc_l = "reset_decoded"
    /\ WriteDecoded(0)
    /\ pc_l' = NextPc(pc_l)
    /\ UNCHANGED <<clock, stores, seen_counters, handler_locals, l_seen, l_dec, l_vals,
                   last_stats_time, reports>>

DeliverThreads == \E f \in InputsThreads : HandlerEnter(f[1], f[2], f[3])

AdvanceThreads == Tick(1000, 2000)

NextThreads ==
    \/ DeliverThreads
    \/ HandlerCountSeen
    \/ HandlerLoadDecoded
    \/ HandlerCountDecoded
    \/ HandlerRest
    \/ LoopCheck
    \/ LoopReadSeen
    \/ LoopReadDecoded
    \/ LoopReadValues
    \/ LoopResetSeen
    \/ LoopResetDecoded
    \/ AdvanceThreads

SpecThreads == InitAt(ThreadPhases, StartClock) /\ [][NextThreads]_vars

\* ---- Start-up with a host clock that has not been set: time.time() counts
\* from 0 (the epoch) when the program starts.
MaxFramesEpoch == 4
EpochHorizon == 15000

DeliverEpoch ==
    /\ nframes < MaxFramesEpoch
    /\ \E can_id \in MESSAGES : \E raw \in RawsThrottle(can_id) :
          \/ can_frame_v0_8(0, can_id, 8, raw % 256, raw \div 256, FALSE, {"ok200"})
          \/ can_frame_v0_6(0, can_id, 8, raw % 256, raw \div 256, FALSE)

AdvanceEpoch == Advance(5000, EpochHorizon)

NextEpoch == DeliverEpoch \/ AdvanceEpoch

SpecEpoch == InitAt({"P8", "P6"}, 0) /\ [][NextEpoch]_vars

(***************************************************************************)
(* What the properties read off a state.                                   *)
(***************************************************************************)
\* the live value of a signal in the running program (None until observed)
Live(sig) ==
    IF phase = "P8" THEN latest_voltages[sig]
    ELSE IF phase = "P6" THEN latest_volts[sig]
    ELSE IF phase = "P5"
         THEN (LET e == last_values[sig \o "_STATUS"]
               IN  IF e = None THEN None ELSE Some(Val(e)[2]))
    ELSE IF phase = "RD" THEN None
    ELSE IF sig = "ECU_A" THEN V_A ELSE IF sig = "ECU_B" THEN V_B ELSE V_D

LiveIs(sig, n, d) == Live(sig) = Some(R(n, d))
MetricA == RSub(Val(Live("DCDC")), Val(Live("ECU_A")))
MetricB == RSub(Val(Live("DCDC")), Val(Live("ECU_B")))

\* the threshold alerts / drift warnings of the last evaluation
ThresholdIdx == {i \in 1..Len(last.events) : last.events[i].level = "ALERT"}
DriftIdx     == {i \in 1..Len(last.events) : last.events[i].level = "EARLY"}
ThresholdCodes == {last.events[i].harness : i \in ThresholdIdx}

\* the reference band each program accepts
InBand ==
    LET d == Val(Live("DCDC"))
    IN  IF phase = "P8" THEN RLe(R(135, 10), d) /\ RLe(d, R(147, 10))
        ELSE IF phase = "P7" THEN RLe(RAbs(RSub(d, R(14, 1))), R(5, 10))
        ELSE RLe(RAbs(RSub(d, R(14, 1))), R(3, 10))

(***************************************************************************)
(* C1 - threshold classifications are mutually exclusive: whatever the     *)
(* live values, one rule evaluation produces at most one of the threshold  *)
(* alerts HARNESS_A, HARNESS_B, HARNESS_C (all three programs).            *)
(***************************************************************************)
C1_AtMostOneThresholdAlert == Cardinality(ThresholdIdx) <= 1

\* an evaluation in which both metrics exceed the threshold, in band
C1_Witness ==
    /\ last.evaluated /\ phase = "P8" /\ InBand
    /\ RGt(MetricA, R(8, 10)) /\ RGt(MetricB, R(8, 10))
    /\ ThresholdCodes = {"HARNESS_C"}

(***************************************************************************)
(* C2 - precedence of the threshold classification.                        *)
(* As claimed (C2_Original): in Phase 8 and Phase 6, reference in band,    *)
(* A exceeds 0.8 V and B does not -> A; B exceeds and A does not -> B;     *)
(* both exceed -> C.  Phase 6 refutes it: it leaves a gap.                 *)
(* As amended (C2_Precedence): Phase 8 as claimed; Phase 6 compares        *)
(* magnitudes and names a single harness only when the other metric is     *)
(* within GOOD_DELTA_V = 0.3 V, so with one metric above 0.8 V and the     *)
(* other in (0.3, 0.8] there is no classification; in every program        *)
(* reference 14.0, A = 1.0, B = 0.1 gives exactly one alert, classified A. *)
(***************************************************************************)
C2_Original ==
    (last.evaluated /\ phase \in {"P8", "P6"} /\ InBand) =>
        LET exA == RGt(MetricA, R(8, 10))
            exB == RGt(MetricB, R(8, 10))
        IN  /\ (exA /\ ~exB) => ThresholdCodes = {"HARNESS_A"}
            /\ (exB /\ ~exA) => ThresholdCodes = {"HARNESS_B"}
            /\ (exA /\ exB) => ThresholdCodes = {"HARNESS_C"}

C2_Example ==
    (last.evaluated /\ LiveIs("DCDC", 14, 1) /\ LiveIs("ECU_A", 13, 1)
        /\ LiveIs("ECU_B", 139, 10)) =>
        /\ Cardinality(ThresholdIdx) = 1
        /\ ThresholdCodes = {"HARNESS_A"}

C2_Precedence ==
    /\ (last.evaluated /\ phase = "P8" /\ InBand) =>
          LET exA == RGt(MetricA, R(8, 10))
              exB == RGt(MetricB, R(8, 10))
          IN  /\ (exA /\ ~exB) => ThresholdCodes = {"HARNESS_A"}
              /\ (exB /\ ~exA) => ThresholdCodes = {"HARNESS_B"}
              /\ (exA /\ exB) => ThresholdCodes = {"HARNESS_C"}
    /\ (last.evaluated /\ phase = "P6" /\ InBand) =>
          LET farA  == RGt(RAbs(MetricA), R(8, 10))
              farB  == RGt(RAbs(MetricB), R(8, 10))
              nearA == RLe(RAbs(MetricA), R(3, 10))
              nearB == RLe(RAbs(MetricB), R(3, 10))
          IN  /\ (farA /\ nearB) => ThresholdCodes = {"HARNESS_A"}
              /\ (farB /\ nearA) => ThresholdCodes = {"HARNESS_B"}
              /\ (farA /\ farB) => ThresholdCodes = {"HARNESS_C"}
              /\ (farA /\ ~nearB /\ ~farB) => ThresholdCodes = {}
              /\ (farB /\ ~nearA /\ ~farA) => ThresholdCodes = {}
    /\ C2_Example

\* the scenario of the specification, in Phase 8
C2_Witness ==
    /\ last.evaluated /\ phase = "P8"
    /\ LiveIs("DCDC", 14, 1) /\ LiveIs("ECU_A", 13, 1) /\ LiveIs("ECU_B", 139, 10)
    /\ Cardinality(ThresholdIdx) = 1
    /\ ThresholdCodes = {"HARNESS_A"}

(***************************************************************************)
(* C3 - with the reference outside the band the program accepts, no        *)
(* threshold alert is produced, whatever metrics A and B are.              *)
(***************************************************************************)
C3_OutOfBandNoThresholdAlert ==
    (last.evaluated /\ ~InBand) => ThresholdIdx = {}

\* the scenario of the specification: reference 10.0, A = 1.0, B = 1.0
C3_Witness ==
    /\ last.evaluated /\ phase = "P8"
    /\ LiveIs("DCDC", 10, 1) /\ LiveIs("ECU_A", 9, 1) /\ LiveIs("ECU_B", 9, 1)
    /\ last.events = << >>

\* the forwards (delivery attempts, console alerts) of the last handler
SentIdx  == 1..Len(last.sent)
SentKeys == {last.sent[i].key : i \in SentIdx}
Cooldown == IF phase = "P8" THEN 10000 ELSE 1000

(***************************************************************************)
(* C4 - dispatcher throttling (Phase 8): of two events with the same       *)
(* throttle key submitted less than cooldown_seconds apart only the first  *)
(* is forwarded, whatever the sink answers: every delivery attempt for a   *)
(* key comes at least SHEET_MIN_INTERVAL_SEC after the previous attempt    *)
(* for that key.  The code violates it when the first delivery fails.      *)
(***************************************************************************)
C4_OneForwardPerCooldown ==
    phase = "P8" =>
        \A i \in SentIdx :
            \/ last.sent[i].prev = None
            \/ last.sent[i].now - Val(last.sent[i].prev) >= SHEET_MIN_INTERVAL_SEC * 1000

(***************************************************************************)
(* C5 - once delivery of an event is attempted its throttle key is marked  *)
(* as sent (last_sheet_send[key] = now) whatever the outcome.  The code    *)
(* marks it only after a 200 response.                                     *)
(***************************************************************************)
C5_MarkedSentWhateverTheOutcome ==
    phase = "P8" =>
        \A i \in SentIdx :
            /\ last.sent[i].key \in DOMAIN last_sheet_send
            /\ last_sheet_send[last.sent[i].key] = last.sent[i].now

C6_Step ==
    /\ phase = "P8" =>
          \A k \in DOMAIN last_sheet_send' :
              k \notin {last'.sent[i].key : i \in 1..Len(last'.sent)} =>
                  /\ k \in DOMAIN last_sheet_send
                  /\ last_sheet_send'[k] = last_sheet_send[k]
    /\ (phase = "P6" /\ nframes' > nframes /\ last'.events # << >>) =>
          /\ (last'.printed # << >>) <=> (clock - LAST_ALERT_TS >= 1000)
          /\ LAST_ALERT_TS' = IF last'.printed # << >> THEN clock ELSE LAST_ALERT_TS

TheWindow  == IF phase = "P8" THEN drift_history ELSE window
WindowSec  == IF phase = "P8" THEN DRIFT_WINDOW_SEC ELSE WINDOW_SECONDS
SampleNow  == IF phase = "P8" THEN R(last.ts, 1000) ELSE R(last.now, 1000)
EwmaA      == IF phase = "P8" THEN ewma_delta_a ELSE ewma_deltaA
HasStats   == phase \in {"P8", "P7"} /\ last.evaluated
SlopeOfEnds(i) ==
    LET w == TheWindow
    IN  RDiv(RSub(w[Len(w)][i], w[1][i]), RSub(w[Len(w)][1], w[1][1]))

(***************************************************************************)
(* C7 - immediately after an append to the sliding window, for any         *)
(* sequence of frame timestamps, the window holds no sample older than     *)
(* now - window_seconds, now being the time of the sample just appended    *)
(* (Phase 8 drift_history, Phase 7 window).                                *)
(***************************************************************************)
C7_NoSampleOlderThanWindow ==
    HasStats =>
        /\ TheWindow # << >>
        /\ TheWindow[Len(TheWindow)][1] = SampleNow
        /\ \A i \in 1..Len(TheWindow) :
               RGe(TheWindow[i][1], RSub(SampleNow, R(WindowSec, 1)))

\* an append that evicted some sample and kept another one besides the new
C7_Witness ==
    /\ HasStats
    /\ Len(TheWindow) >= 2
    /\ Len(TheWindow) < Len(fed)

(***************************************************************************)
(* C8 - EWMA initialisation and fixed point: after the first metric sample *)
(* the EWMA equals that sample exactly, and after N >= 1 identical metric  *)
(* values v the EWMA equals v (Phase 8 ewma_delta_a, Phase 7 ewma_deltaA   *)
(* and ewma_deltaB).                                                       *)
(***************************************************************************)
C8_EwmaFirstSampleAndFixedPoint ==
    (phase \in {"P8", "P7"} /\ fed # << >>) =>
        /\ Len(fed) = 1 =>
              /\ EwmaA = Some(fed[1][1])
              /\ phase = "P7" => ewma_deltaB = Some(fed[1][2])
        /\ (\A i \in 1..Len(fed) : fed[i][1] = fed[1][1]) => EwmaA = Some(fed[1][1])
        /\ (phase = "P7" /\ \A i \in 1..Len(fed) : fed[i][2] = fed[1][2])
              => ewma_deltaB = Some(fed[1][2])

\* three identical non-zero samples of metric A
C8_Witness ==
    /\ phase \in {"P8", "P7"}
    /\ Len(fed) >= 3
    /\ \A i \in 1..Len(fed) : fed[i][1] = R(5, 10)
    /\ EwmaA = Some(R(5, 10))

(***************************************************************************)
(* C9 - when the window holds fewer than 2 samples, or no time has elapsed *)
(* between its oldest and its newest sample, the trend is absent (None,    *)
(* never zero) and the evaluation produces no drift event.                 *)
(***************************************************************************)
C9_NoTrendNoDriftEvent ==
    (HasStats /\ \A i, j \in 1..Len(TheWindow) : TheWindow[i][1] = TheWindow[j][1]) =>
        /\ last.trendA = None
        /\ last.trendB = None
        /\ DriftIdx = {}

\* two samples of one instant whose values rise, with an EWMA above the
\* drift minimum: only the absent trend keeps the drift rule quiet
C9_Witness ==
    /\ HasStats
    /\ Len(TheWindow) >= 2
    /\ \A i, j \in 1..Len(TheWindow) : TheWindow[i][1] = TheWindow[j][1]
    /\ RGt(TheWindow[Len(TheWindow)][2], TheWindow[1][2])
    /\ RGt(Val(EwmaA), R(3, 10))
    /\ last.trendA = None

StoreState == <<latest_voltages, V_A, V_B, V_D, latest_volts, last_values>>
StatsState == <<drift_history, ewma_delta_a, window, ewma_deltaA, ewma_deltaB>>
ThrottleState == <<last_sheet_send, LAST_ALERT_TS>>
DecodedCount ==
    IF phase = "P8" THEN frames_decoded_window
    ELSE IF phase = "P7" THEN frames_decoded
    ELSE IF phase = "P6" THEN decoded_frames ELSE 0
SeenCount ==
    IF phase = "P8" THEN frames_seen_window
    ELSE IF phase = "P7" THEN frames_seen
    ELSE IF phase = "P6" THEN frames_seen6 ELSE recv_count
\* the signal a catalog identifier carries
SignalOf(can_id) ==
    CASE can_id = ID_ECU_A -> "ECU_A"
      [] can_id = ID_ECU_B -> "ECU_B"
      [] can_id = ID_DCDC  -> "DCDC"
AllLive == \A sig \in Signals : Live(sig) # None
IsFrame == last.kind = "frame"

(***************************************************************************)
(* C11 - a frame whose identifier is not in the catalog is silently        *)
(* ignored (Phases 8, 7, 5): no decoded sample, no event, no delivery, and *)
(* the live values, the sliding window, the EWMA and the throttle state    *)
(* stay as they were; only the frames-seen counter moves, by one.          *)
(***************************************************************************)
C11_Step ==
    (/\ phase \in {"P8", "P7", "P5"}
     /\ nframes' = nframes + 1
     /\ last'.can_id \notin MESSAGES)
    => /\ ~last'.decoded
       /\ last'.value = None
       /\ last'.events = << >>
       /\ last'.sent = << >>
       /\ UNCHANGED <<StoreState, StatsState, ThrottleState>>
       /\ DecodedCount' = DecodedCount
       /\ SeenCount' = SeenCount + 1

C11_UnknownIdIgnored == [][C11_Step]_vars

\* Phase 8, an unknown identifier arriving when there is a window, an EWMA
\* and a throttle entry to be left alone
C11_Witness ==
    /\ phase = "P8"
    /\ IsFrame
    /\ last.can_id \notin MESSAGES
    /\ drift_history # << >>
    /\ ewma_delta_a # None
    /\ DOMAIN last_sheet_send # {}
    /\ frames_seen_window > frames_decoded_window

(***************************************************************************)
(* C12 - no per-frame error ends the stream (Phases 8, 7): a frame with an *)
(* unknown identifier or a payload whose decoding raises, and an           *)
(* evaluation with missing inputs, give no event; every well-formed frame, *)
(* also after such frames, is decoded, and evaluated once all three        *)
(* inputs are there.                                                       *)
(***************************************************************************)
C12_ErrorsGiveNoEventAndStreamGoesOn ==
    (phase \in {"P8", "P7"} /\ IsFrame) =>
        /\ (last.can_id \notin MESSAGES \/ last.failed) =>
              /\ ~last.decoded
              /\ ~last.evaluated
              /\ last.events = << >>
              /\ last.sent = << >>
        /\ ~AllLive => last.events = << >>
        /\ (last.can_id \in MESSAGES /\ ~last.failed) =>
              /\ last.decoded
              /\ last.evaluated <=> AllLive

\* a well-formed frame decoded and evaluated, with an event, after a frame
\* that was dropped
C12_Witness ==
    /\ phase \in {"P8", "P7"}
    /\ IsFrame
    /\ SeenCount > DecodedCount
    /\ last.decoded
    /\ last.evaluated
    /\ last.events # << >>

(***************************************************************************)
(* C13 - warm-up: as long as one of ECU_A, ECU_B, DCDC has not been        *)
(* observed, a frame produces no event (Phases 8, 7, 6), and the rules and *)
(* statistics are not evaluated.                                           *)
(***************************************************************************)
C13_WarmUpNoEvent ==
    (phase \in {"P8", "P7", "P6"} /\ IsFrame /\ ~AllLive) =>
        /\ ~last.evaluated
        /\ last.events = << >>
        /\ last.printed = << >>
        /\ fed = << >>

\* the reference at 14.0 V and ECU_A 1.0 V below it, ECU_B still missing
C13_Witness ==
    /\ phase \in {"P8", "P7", "P6"}
    /\ IsFrame
    /\ last.decoded
    /\ LiveIs("DCDC", 14, 1)
    /\ LiveIs("ECU_A", 13, 1)
    /\ Live("ECU_B") = None

(***************************************************************************)
(* C17 - the live value store is last-write-wins and never deletes: a      *)
(* decoded frame for signal S with value v leaves S at v, whatever was     *)
(* stored and whatever the frame's timestamp; every other signal keeps its *)
(* value; an observed signal never becomes None again.  Phase 5 stores the *)
(* frame's timestamp with the value.                                       *)
(***************************************************************************)
C17_Step ==
    phase \in {"P8", "P7", "P6", "P5"} =>
        /\ \A sig \in Signals : Live(sig) # None => Live(sig)' # None
        /\ (nframes' = nframes + 1 /\ last'.decoded) =>
              \A sig \in Signals :
                  IF sig = SignalOf(last'.can_id)
                  THEN Live(sig)' = last'.value
                  ELSE Live(sig)' = Live(sig)
        /\ (nframes' = nframes + 1 /\ last'.decoded /\ phase = "P5") =>
              last_values'[MsgName(last'.can_id)] = Some(<<last'.ts, Val(last'.value)>>)
        /\ (nframes' = nframes + 1 /\ ~last'.decoded) =>
              \A sig \in Signals : Live(sig)' = Live(sig)

C17_LastWriteWins == [][C17_Step]_vars

\* Phase 5: ECU_A overwritten by a frame stamped earlier than the one that
\* wrote DCDC, with a value unlike DCDC's
C17_Witness ==
    /\ phase = "P5"
    /\ IsFrame
    /\ last.decoded
    /\ last.can_id = ID_ECU_A
    /\ last_values["ECU_A_STATUS"] = Some(<<0, R(13, 1)>>)
    /\ last_values["DCDC_STATUS"] = Some(<<1000, R(14, 1)>>)
    /\ nframes >= 3

\* the drift floors of the running program, and the endpoint slope of metric
\* B over the window (Phase 8 keeps no window for B: the slope is taken over
\* the evaluations its drift_history spans)
DriftFloor     == IF phase = "P8" THEN EARLY_DRIFT_DV_MIN ELSE DRIFT_MIN_V
VelocityFloor  == IF phase = "P8" THEN EARLY_DRIFT_TREND_MIN ELSE TREND_MIN_VPS
EwmaB          == ewma_deltaB
TrendOfB ==
    IF phase = "P7" THEN last.trendB
    ELSE LET n  == Len(drift_history)
             dt == RSub(drift_history[n][1], drift_history[1][1])
         IN  IF n < 2 \/ dt = R(0, 1) THEN None
             ELSE Some(RDiv(RSub(fed[Len(fed)][2], fed[Len(fed) - n + 1][2]), dt))
DriftNames == {last.events[i].rule_name : i \in DriftIdx}
Exceeds(x, floor) == x # None /\ RGt(Val(x), floor)
Flat(x) == x # None /\ RLt(RAbs(Val(x)), RMul(VelocityFloor, R(1, 2)))

(***************************************************************************)
(* C14 - drift rules require the reference to be stable, by the band check *)
(* of the threshold rules: an evaluation with DCDC outside its band        *)
(* produces no early-warning event.  Phase 8's drift rule has no such      *)
(* check.                                                                  *)
(***************************************************************************)
C14_OutOfBandNoDriftEvent ==
    (phase \in {"P8", "P7"} /\ IsFrame /\ last.evaluated /\ ~InBand) => DriftIdx = {}

(***************************************************************************)
(* C15 - a single-metric drift event for a metric is produced only when    *)
(* the metric's EWMA exceeds the drift-magnitude floor, its trend exceeds  *)
(* the drift-velocity floor, and the other metric's trend stays below half *)
(* the velocity floor.  Phase 8's drift rule does not look at metric B.    *)
(***************************************************************************)
C15_SingleDriftOnlyWhenOtherFlat ==
    (phase \in {"P8", "P7"} /\ IsFrame) =>
        /\ "HARNESS_A_DRIFT" \in DriftNames =>
              /\ Exceeds(EwmaA, DriftFloor)
              /\ Exceeds(last.trendA, VelocityFloor)
              /\ Flat(TrendOfB)
        /\ "HARNESS_B_DRIFT" \in DriftNames =>
              /\ Exceeds(EwmaB, DriftFloor)
              /\ Exceeds(last.trendB, VelocityFloor)
              /\ Flat(last.trendA)

ZeroFilled(b, index, dlc) == IF index >= dlc THEN 0 ELSE b

(***************************************************************************)
(* C18 - decode round trip: for a raw value of the 16-bit little-endian    *)
(* voltage signal, the payload bytes b0 = raw mod 256, b1 = raw div 256    *)
(* decode to raw * 0.1 (scale 0.1, offset 0).                              *)
(***************************************************************************)
C18_DecodeRoundTrip ==
    (IsFrame /\ last.decoded) =>
        LET raw == last.b1 * 256 + last.b0
        IN  /\ raw \in 0..65535
            /\ last.b0 = raw % 256
            /\ last.b1 = raw \div 256
            /\ last.value = Some(R(raw, 10))

\* replay_decode.py decoding raw = 0x058C = 1420 to 142.0 V
C18_Witness ==
    /\ phase = "RD"
    /\ IsFrame
    /\ last.decoded
    /\ last.b0 = 140
    /\ last.b1 = 5
    /\ last.value = Some(R(142, 1))

(***************************************************************************)
(* C19 - a frame whose dlc is smaller than the signal's byte span is       *)
(* decoded with zero-filled trailing bytes: the decoded value is the       *)
(* decode of the payload whose slots at index >= dlc are replaced by 0,    *)
(* whatever padding was delivered there.  The code decodes the padding.    *)
(***************************************************************************)
C19_ShortFrameZeroFilled ==
    (IsFrame /\ last.decoded) =>
        last.value = Some(decode_voltage_from_bytes(ZeroFilled(last.b0, 0, last.dlc),
                                                    ZeroFilled(last.b1, 1, last.dlc)))

(***************************************************************************)
(* C20 - a slow or failing sink cannot stall frame processing: delivery is *)
(* decoupled from the frame handler, so between the start of a frame's     *)
(* handling and its end no time is spent waiting for the sink.  Phase 8    *)
(* calls urlopen(timeout=5) inside the handler.                            *)
(***************************************************************************)
C20_Step == nframes' = nframes + 1 => clock' = clock

C20_HandlerNeverWaitsForSink == [][C20_Step]_vars

(***************************************************************************)
(* C23 - when a drift metric gets a sample.                                *)
(* As claimed (C23_Original): on every decoded frame on which all of that  *)
(* metric's inputs are available: metric A = DCDC - ECU_A is sampled (and  *)
(* its EWMA set) as soon as DCDC and ECU_A are both known, whether or not  *)
(* ECU_B has been observed.  Phase 8 and Phase 7 refute it.                *)
(* As amended (C23_SampleOnceAllKnown): a sample (now, metric) is appended *)
(* and the EWMA updated on every decoded frame after which all three       *)
(* signals ECU_A, ECU_B and DCDC are known, and on no other frame: until   *)
(* then the window and the EWMA stay as they were.                         *)
(***************************************************************************)
C23_OriginalStep ==
    (/\ phase \in {"P8", "P7"}
     /\ nframes' = nframes + 1
     /\ last'.decoded
     /\ Live("DCDC")' # None
     /\ Live("ECU_A")' # None)
    => /\ Len(fed') = Len(fed) + 1
       /\ TheWindow' # << >>
       /\ TheWindow'[Len(TheWindow')][1] = SampleNow'
       /\ EwmaA' # None

C23_Step ==
    (phase \in {"P8", "P7"} /\ nframes' = nframes + 1) =>
        IF last'.decoded /\ AllLive'
        THEN /\ Len(fed') = Len(fed) + 1
             /\ TheWindow' # << >>
             /\ TheWindow'[Len(TheWindow')][1] = SampleNow'
             /\ TheWindow'[Len(TheWindow')][2] = MetricA'
             /\ EwmaA' # None
        ELSE /\ fed' = fed
             /\ TheWindow' = TheWindow
             /\ EwmaA' = EwmaA

C24_EvaluationIsPure ==
    (phase = "P8" /\ AllLive) =>
        LET r == evaluate_rules(mcu_ms, latest_voltages)
        IN  /\ r.history = drift_history
            /\ r.ewma = ewma_delta_a

WithinFed(ewma, i) ==
    ewma # None =>
        \E lo, hi \in 1..Len(fed) :
            /\ RLe(fed[lo][i], Val(ewma))
            /\ RLe(Val(ewma), fed[hi][i])

(***************************************************************************)
(* C30 - the EWMA, once set, lies between the minimum and the maximum of   *)
(* all the values fed to it so far (rounding apart), and once set it is    *)
(* never unset.                                                            *)
(***************************************************************************)
C30_Step ==
    phase \in {"P8", "P7"} =>
        /\ EwmaA # None => EwmaA' # None
        /\ fed' # << >> => EwmaA' # None
        /\ WithinFed(EwmaA, 1)'
        /\ phase = "P7" =>
              /\ EwmaB # None => EwmaB' # None
              /\ fed' # << >> => EwmaB' # None
              /\ WithinFed(EwmaB, 2)'

C30_EwmaBoundedAndKept == [][C30_Step]_vars

\* Phase 8 after three samples 0.5, 0.3, 0.3: the EWMA is strictly between
C30_Witness ==
    /\ phase = "P8"
    /\ Len(fed) = 3
    /\ fed[1][1] = R(5, 10)
    /\ fed[3][1] = R(3, 10)
    /\ ewma_delta_a # None
    /\ RLt(R(3, 10), Val(ewma_delta_a))
    /\ RLt(Val(ewma_delta_a), R(5, 10))

(***************************************************************************)
(* C29 - Phase 6: evaluate_harness_health returns the alert code, and the  *)
(* CSV row records it, on every evaluation whose live values match a rule, *)
(* whether or not the console alert is suppressed by the cooldown; and     *)
(* LAST_ALERT_TS changes only when an alert is printed.                    *)
(***************************************************************************)
C29_Step ==
    (phase = "P6" /\ nframes' = nframes + 1) =>
        /\ last'.evaluated =>
              LET code == Classify6(Val(Live("ECU_A")'), Val(Live("ECU_B")'),
                                    Val(Live("DCDC")'))
              IN  {last'.events[i].rule_name : i \in 1..Len(last'.events)}
                      = IF code = "" THEN {} ELSE {code}
        /\ LAST_ALERT_TS' # LAST_ALERT_TS => last'.printed # << >>
        /\ last'.printed = << >> => LAST_ALERT_TS' = LAST_ALERT_TS

C29_CodeReturnedEvenWhenSuppressed == [][C29_Step]_vars

\* a matching evaluation inside the cooldown: the code is returned, nothing
\* is printed
C29_Witness ==
    /\ phase = "P6"
    /\ IsFrame
    /\ last.evaluated
    /\ Len(last.events) = 1
    /\ last.events[1].rule_name = "HARNESS_A"
    /\ last.printed = << >>
    /\ LAST_ALERT_TS = last.now

RECURSIVE SumSeen(_)
SumSeen(rs) == IF rs = << >> THEN 0 ELSE Head(rs).seen + SumSeen(Tail(rs))

(***************************************************************************)
(* C26 - under any interleaving of the frame handler and the periodic      *)
(* loop, every [STATS] report has decoded <= frames_seen (Phases 8, 7).    *)
(* The loop resets the two counters between a handler's two increments.    *)
(***************************************************************************)
C26_ReportedDecodedAtMostSeen ==
    phase \in {"P8", "P7"} =>
        \A i \in 1..Len(reports) : reports[i].decoded <= reports[i].seen

(***************************************************************************)
(* C27 - no received frame is lost from the periodic counters, under any   *)
(* interleaving of the handler and the loop: every frame that was counted  *)
(* is in exactly one report, so whenever neither the handler nor a report  *)
(* is under way, the frames-seen values reported so far and the counter's  *)
(* current value add up to the number of frames handled (Phases 8, 7, 5,   *)
(* 4).  A frame counted between a report's print and its reset is lost.    *)
(***************************************************************************)
C27_NoFrameLostFromReports ==
    (phase \in ThreadPhases /\ pc_h = "idle" /\ pc_l = "idle") =>
        SumSeen(reports) + ReadSeen = nframes

(***************************************************************************)
(* C22 - the periodic loop never observes a torn update of a live value    *)
(* (Phase 5): every (timestamp, value) pair it reads for a key was written *)
(* together by one handler invocation, under any interleaving of the       *)
(* handler and the loop.                                                   *)
(***************************************************************************)
C22_NoTornPair ==
    phase = "P5" =>
        /\ \A i \in 1..Len(l_vals) :
              l_vals[i] = None \/ <<ReportKeys[i], Val(l_vals[i])>> \in written
        /\ \A r \in 1..Len(reports) : \A i \in 1..Len(reports[r].values) :
              \/ reports[r].values[i] = None
              \/ <<ReportKeys[i], Val(reports[r].values[i])>> \in written

\* two reports that show two different pairs for ECU_A_STATUS
C22_Witness ==
    /\ phase = "P5"
    /\ Len(reports) = 2
    /\ reports[1].values[1] = Some(<<0, R(13, 1)>>)
    /\ reports[2].values[1] = Some(<<1000, R(14, 1)>>)
    /\ reports[2].values[2] = None

====
